---------------------------- MODULE Spec2Model ----------------------------
(*************************************************************************)
(* Model of src/homework.py: the fitness tracker's workout calculator.   *)
(*                                                                       *)
(* Python numbers are modelled as exact non-negative rationals n/d whose *)
(* numerator and denominator are arbitrary-precision naturals (little-   *)
(* endian sequences of base-10000 limbs), because the values the         *)
(* formulas produce do not fit the model checker's machine integers.     *)
(* Binary floating-point rounding error (of the order of 1e-13 on the    *)
(* sample readings) is therefore not represented.                        *)
(*************************************************************************)
EXTENDS Integers, Sequences, FiniteSets, TLC

(*************************************************************************)
(* Bounds of the explored input space.                                   *)
(*************************************************************************)
MaxLen == 6        \* longest argument list handed to read_package
MaxCalls == 2      \* show_training_info calls made on one instance
MaxPackages == 3   \* longest package list handed to the main loop

(*************************************************************************)
(* Arbitrary-precision naturals: Python's int / float mantissa.          *)
(*************************************************************************)
Base == 10000

RECURSIVE BN(_)
BN(k) == IF k = 0 THEN <<>> ELSE <<k % Base>> \o BN(k \div Base)

RECURSIVE BToInt(_)
BToInt(a) == IF a = <<>> THEN 0 ELSE Head(a) + Base * BToInt(Tail(a))

RECURSIVE BAddC(_, _, _)
BAddC(a, b, c) ==
    IF a = <<>> /\ b = <<>>
    THEN (IF c = 0 THEN <<>> ELSE <<c>>)
    ELSE LET x == IF a = <<>> THEN 0 ELSE Head(a)
             y == IF b = <<>> THEN 0 ELSE Head(b)
             s == x + y + c
             ta == IF a = <<>> THEN <<>> ELSE Tail(a)
             tb == IF b = <<>> THEN <<>> ELSE Tail(b)
         IN  <<s % Base>> \o BAddC(ta, tb, s \div Base)

BAdd(a, b) == BAddC(a, b, 0)

RECURSIVE BMulS(_, _, _)
BMulS(a, k, c) ==
    IF a = <<>>
    THEN (IF c = 0 THEN <<>> ELSE <<c>>)
    ELSE LET p == Head(a) * k + c
         IN  <<p % Base>> \o BMulS(Tail(a), k, p \div Base)

RECURSIVE BStrip(_)
BStrip(a) == IF a = <<>> THEN <<>>
             ELSE IF a[Len(a)] = 0 THEN BStrip(SubSeq(a, 1, Len(a) - 1))
             ELSE a

RECURSIVE BMulR(_, _)
BMulR(a, b) ==
    IF b = <<>> THEN <<>>
    ELSE LET rest == BMulR(a, Tail(b))
             shifted == IF rest = <<>> THEN <<>> ELSE <<0>> \o rest
         IN  BAdd(BMulS(a, Head(b), 0), shifted)

BMul(a, b) == BStrip(BMulR(a, b))

RECURSIVE BLessEq(_, _)
BLessEq(a, b) ==
    IF Len(a) # Len(b) THEN Len(a) < Len(b)
    ELSE IF a = <<>> THEN TRUE
    ELSE IF a[Len(a)] # b[Len(b)] THEN a[Len(a)] < b[Len(b)]
    ELSE BLessEq(SubSeq(a, 1, Len(a) - 1), SubSeq(b, 1, Len(b) - 1))

BLess(a, b) == ~BLessEq(b, a)

\* a - b for b <= a.
RECURSIVE BSubB(_, _, _)
BSubB(a, b, borrow) ==
    IF a = <<>> THEN <<>>
    ELSE LET y == (IF b = <<>> THEN 0 ELSE Head(b)) + borrow
             tb == IF b = <<>> THEN <<>> ELSE Tail(b)
         IN  IF Head(a) >= y
             THEN <<Head(a) - y>> \o BSubB(Tail(a), tb, 0)
             ELSE <<Head(a) + Base - y>> \o BSubB(Tail(a), tb, 1)

BSub(a, b) == BStrip(BSubB(a, b, 0))

\* How many times b fits in r, and what is left, for r < 10 * b.
RECURSIVE BDigit(_, _, _)
BDigit(r, b, k) ==
    IF BLess(r, b) THEN [q |-> k, r |-> r] ELSE BDigit(BSub(r, b), b, k + 1)

\* Quotient and remainder of a by b # 0: long division, one decimal digit
\* of the quotient at a time.
RECURSIVE BDivMod(_, _)
BDivMod(a, b) ==
    IF BLess(a, b) THEN [q |-> <<>>, r |-> a]
    ELSE LET hi == BDivMod(a, BMulS(b, 10, 0))
             lo == BDigit(hi.r, b, 0)
         IN  [q |-> BAdd(BMulS(hi.q, 10, 0), BN(lo.q)), r |-> lo.r]

(*************************************************************************)
(* Python values: a number, a class object, or a raised exception.       *)
(*************************************************************************)
Q(n, d) == [tag |-> "num", n |-> n, d |-> d]
QI(k) == Q(BN(k), BN(1))
QDec(k, scale) == Q(BN(k), BN(scale))
TypeObject(name) == [tag |-> "type", name |-> name]
Raise(kind) == [tag |-> "raise", kind |-> kind, args |-> <<>>]
IsNum(x) == x.tag = "num"
IsRaise(x) == x.tag = "raise"

QMul(a, b) ==
    IF IsRaise(a) THEN a ELSE IF IsRaise(b) THEN b
    ELSE Q(BMul(a.n, b.n), BMul(a.d, b.d))

QDiv(a, b) ==
    IF IsRaise(a) THEN a ELSE IF IsRaise(b) THEN b
    ELSE IF b.n = <<>> THEN Raise("ZeroDivisionError")
    ELSE Q(BMul(a.n, b.d), BMul(a.d, b.n))

QAdd(a, b) ==
    IF IsRaise(a) THEN a ELSE IF IsRaise(b) THEN b
    ELSE Q(BAdd(BMul(a.n, b.d), BMul(b.n, a.d)), BMul(a.d, b.d))

QSquare(a) == QMul(a, a)

QEq(a, b) == IsNum(a) /\ IsNum(b) /\ BMul(a.n, b.d) = BMul(b.n, a.d)
QLess(a, b) == IsNum(a) /\ IsNum(b) /\ BLess(BMul(a.n, b.d), BMul(b.n, a.d))

\* '{:.3f}'.format(v): v rounded to three decimals (ties to even), given
\* here as the integer number of thousandths.
Format3f(v) ==
    LET dm == BDivMod(BMul(v.n, BN(1000)), v.d)
        twice == BMulS(dm.r, 2, 0)
        fi == BToInt(dm.q)
    IN  IF BLess(twice, v.d) THEN fi
        ELSE IF BLess(v.d, twice) THEN fi + 1
        ELSE IF fi % 2 = 0 THEN fi ELSE fi + 1

(*************************************************************************)
(* Class constants.                                                      *)
(*************************************************************************)
M_IN_KM == 1000
TIME_IN_MIN == 60
LEN_STEP(cls) == IF cls = "Swimming" THEN QDec(138, 100) ELSE QDec(65, 100)
CALORIES_MEAN_SPEED_MULTIPLIER == 18
CALORIES_MEAN_SPEED_SHIFT == QDec(179, 100)
COLORIES_MEAN_SPEED_1 == QDec(35, 1000)
COLORIES_MEAN_SPEED_2 == QDec(29, 1000)
FROM_KM_TO_MS == QDec(278, 1000)
FROM_SM_TO_M == 100
CALORIES_MEAN_SPEED_1 == QDec(11, 10)
CALORIES_MEAN_SPEED_2 == 2

None == [tag |-> "None"]

(*************************************************************************)
(* Constructors.  The call unpacks data onto the positional parameters   *)
(* of __init__; none has a default, so any other length is a TypeError.  *)
(*************************************************************************)
InitParams(cls) ==
    CASE cls = "Swimming" ->
           <<"action", "duration", "weight", "length_pool", "count_pool">>
      [] cls = "SportsWalking" ->
           <<"action", "duration", "weight", "height">>
      [] OTHER -> <<"action", "duration", "weight">>

\* Variant: surplus arguments are dropped instead of refused.
Construct_surplus(cls, data) ==
    IF Len(data) < Len(InitParams(cls)) THEN Raise("TypeError")
    ELSE CASE cls = "Swimming" ->
                [tag |-> "obj", cls |-> cls, action |-> data[1],
                 duration |-> data[2], weight |-> data[3],
                 length_pool |-> data[4], count_pool |-> data[5]]
           [] cls = "SportsWalking" ->
                [tag |-> "obj", cls |-> cls, action |-> data[1],
                 duration |-> data[2], weight |-> data[3],
                 height |-> data[4]]
           [] OTHER ->
                [tag |-> "obj", cls |-> cls, action |-> data[1],
                 duration |-> data[2], weight |-> data[3]]

\* Variant: the constructor validates the duration.
Construct_validating(cls, data) ==
    IF Len(data) # Len(InitParams(cls)) THEN Raise("TypeError")
    ELSE IF data[2] = 0 THEN Raise("ValueError")
    ELSE CASE cls = "Swimming" ->
                [tag |-> "obj", cls |-> cls, action |-> data[1],
                 duration |-> data[2], weight |-> data[3],
                 length_pool |-> data[4], count_pool |-> data[5]]
           [] cls = "SportsWalking" ->
                [tag |-> "obj", cls |-> cls, action |-> data[1],
                 duration |-> data[2], weight |-> data[3],
                 height |-> data[4]]
           [] OTHER ->
                [tag |-> "obj", cls |-> cls, action |-> data[1],
                 duration |-> data[2], weight |-> data[3]]

Construct(cls, data) ==
    IF Len(data) # Len(InitParams(cls)) THEN Raise("TypeError")
    ELSE CASE cls = "Swimming" ->
                [tag |-> "obj", cls |-> cls, action |-> data[1],
                 duration |-> data[2], weight |-> data[3],
                 length_pool |-> data[4], count_pool |-> data[5]]
           [] cls = "SportsWalking" ->
                [tag |-> "obj", cls |-> cls, action |-> data[1],
                 duration |-> data[2], weight |-> data[3],
                 height |-> data[4]]
           [] OTHER ->
                [tag |-> "obj", cls |-> cls, action |-> data[1],
                 duration |-> data[2], weight |-> data[3]]

(*************************************************************************)
(* Methods.                                                              *)
(*************************************************************************)
get_distance(self) ==
    QDiv(QMul(QI(self.action), LEN_STEP(self.cls)), QI(M_IN_KM))

Training_get_mean_speed(self) ==
    QDiv(get_distance(self), QI(self.duration))

\* Variant: no override, the speed comes from the action count.
Swimming_get_mean_speed_inherited(self) ==
    QDiv(get_distance(self), QI(self.duration))

Swimming_get_mean_speed(self) ==
    QDiv(QDiv(QMul(QI(self.length_pool), QI(self.count_pool)), QI(M_IN_KM)),
         QI(self.duration))

\* Method resolution: Swimming overrides, the others inherit.
get_mean_speed(self) ==
    IF self.cls = "Swimming" THEN Swimming_get_mean_speed(self)
    ELSE Training_get_mean_speed(self)

\* The base returns the exception class: the statement is a return.
Training_get_spent_calories(self) == TypeObject("NotImplementedError")

\* Variant: the division by M_IN_KM is missing.
Running_get_spent_calories_nokm(self) ==
    QMul(QMul(QMul(QAdd(QMul(QI(CALORIES_MEAN_SPEED_MULTIPLIER),
                             get_mean_speed(self)),
                        CALORIES_MEAN_SPEED_SHIFT),
                   QI(self.weight)),
              QI(self.duration)),
         QI(TIME_IN_MIN))

Running_get_spent_calories(self) ==
    QMul(QMul(QDiv(QMul(QAdd(QMul(QI(CALORIES_MEAN_SPEED_MULTIPLIER),
                                  get_mean_speed(self)),
                             CALORIES_MEAN_SPEED_SHIFT),
                        QI(self.weight)),
                   QI(M_IN_KM)),
              QI(self.duration)),
         QI(TIME_IN_MIN))

\* Variant: the speed in m/s is not squared.
SportsWalking_get_spent_calories_nosquare(self) ==
    QMul(QAdd(QMul(COLORIES_MEAN_SPEED_1, QI(self.weight)),
              QMul(QDiv(QMul(get_mean_speed(self), FROM_KM_TO_MS),
                        QDiv(QI(self.height), QI(FROM_SM_TO_M))),
                   QMul(COLORIES_MEAN_SPEED_2, QI(self.weight)))),
         QMul(QI(self.duration), QI(TIME_IN_MIN)))

SportsWalking_get_spent_calories(self) ==
    QMul(QAdd(QMul(COLORIES_MEAN_SPEED_1, QI(self.weight)),
              QMul(QDiv(QSquare(QMul(get_mean_speed(self), FROM_KM_TO_MS)),
                        QDiv(QI(self.height), QI(FROM_SM_TO_M))),
                   QMul(COLORIES_MEAN_SPEED_2, QI(self.weight)))),
         QMul(QI(self.duration), QI(TIME_IN_MIN)))

Swimming_get_spent_calories(self) ==
    QMul(QMul(QMul(QAdd(get_mean_speed(self), CALORIES_MEAN_SPEED_1),
                   QI(CALORIES_MEAN_SPEED_2)),
              QI(self.weight)),
         QI(self.duration))

get_spent_calories(self) ==
    CASE self.cls = "Running" -> Running_get_spent_calories(self)
      [] self.cls = "SportsWalking" -> SportsWalking_get_spent_calories(self)
      [] self.cls = "Swimming" -> Swimming_get_spent_calories(self)
      [] OTHER -> Training_get_spent_calories(self)

\* The arguments of InfoMessage(...) are evaluated left to right; the first
\* one that raises ends the call.
show_training_info(self) ==
    LET distance == get_distance(self)
        speed == get_mean_speed(self)
        calories == get_spent_calories(self)
    IN  IF IsRaise(distance) THEN distance
        ELSE IF IsRaise(speed) THEN speed
        ELSE IF IsRaise(calories) THEN calories
        ELSE [tag |-> "InfoMessage", training_type |-> self.cls,
              duration |-> QI(self.duration), distance |-> distance,
              speed |-> speed, calories |-> calories]

\* Message.format over the field values: the type name as it is, the four
\* numbers with three decimals.  A value that is not a number has no 'f'
\* format.
get_message(info) ==
    IF \E v \in {info.duration, info.distance, info.speed, info.calories} :
          ~IsNum(v)
    THEN Raise("TypeError")
    ELSE [tag |-> "str",
          text |-> <<info.training_type, Format3f(info.duration),
                     Format3f(info.distance), Format3f(info.speed),
                     Format3f(info.calories)>>]

\* The dictionary of read_package.
sport == [c \in {"SWM", "RUN", "WLK"} |->
            CASE c = "SWM" -> "Swimming"
              [] c = "RUN" -> "Running"
              [] c = "WLK" -> "SportsWalking"]

\* The words of the message of the error read_package raises
\* ("error is not defined", in Russian in the source).
UnsupportedMessage(workout_type) == <<"Oshibka", "ne", "opredelena">>

\* Variant: an unknown code falls back to Running.
read_package_fallback(workout_type, data) ==
    IF workout_type \notin DOMAIN sport
    THEN Construct("Running", data)
    ELSE Construct(sport[workout_type], data)

read_package(workout_type, data) ==
    IF workout_type \notin DOMAIN sport
    THEN [tag |-> "raise", kind |-> "NotImplementedError",
          args |-> UnsupportedMessage(workout_type)]
    ELSE Construct(sport[workout_type], data)


(*************************************************************************)
(* Inputs.                                                               *)
(*************************************************************************)
Codes == {"SWM", "RUN", "WLK", "XYZ"}

\* Values tried at each position of an argument list: action, duration,
\* weight, height or length_pool, count_pool, and anything beyond.
ArgValues(i) ==
    CASE i = 1 -> {0, 720, 9000, 15000}
      [] i = 2 -> {0, 1, 2}
      [] i = 3 -> {75, 80}
      [] i = 4 -> {0, 25, 180}
      [] i = 5 -> {20, 40}
      [] OTHER -> {1}

RECURSIVE ListsOfLen(_)
ListsOfLen(n) ==
    IF n = 0 THEN {<<>>}
    ELSE {Append(l, v) : l \in ListsOfLen(n - 1), v \in ArgValues(n)}

DataLists == UNION {ListsOfLen(n) : n \in 0..MaxLen}

\* The list of the __main__ block.
SamplePackages ==
    << <<"SWM", <<720, 1, 80, 25, 40>> >>,
       <<"RUN", <<15000, 1, 75>> >>,
       <<"WLK", <<9000, 1, 75, 180>> >> >>

\* The packages the loop is fed: the samples, an unknown code, a short
\* argument list and a zero duration.
PackageSet ==
    {SamplePackages[k] : k \in 1..3}
      \cup { <<"XYZ", <<720, 1, 80>> >>,
             <<"RUN", <<15000, 1>> >>,
             <<"WLK", <<9000, 0, 75, 180>> >> }

RECURSIVE PackageListsOfLen(_)
PackageListsOfLen(n) ==
    IF n = 0 THEN {<<>>}
    ELSE {Append(l, p) : l \in PackageListsOfLen(n - 1), p \in PackageSet}

PackageLists == UNION {PackageListsOfLen(n) : n \in 0..MaxPackages}

(*************************************************************************)
(* State.                                                                *)
(*************************************************************************)
VARIABLES
    workout_type,  \* code of the last read_package call
    data,          \* argument list of the last constructor call
    training,      \* the instance built, or None
    calories,      \* value a direct get_spent_calories call returned
    infos,         \* InfoMessages show_training_info returned for training
    messages,      \* strings get_message returned for those InfoMessages
    raised,        \* the exception that ended the last call, or None
    op,            \* the last operation called
    packages,      \* the list the main loop iterates over
    idx,           \* position of the loop in packages
    pc,            \* where the script is: idle, loop, main, done, crashed
    out            \* lines printed to standard output

vars == <<workout_type, data, training, calories, infos, messages, raised,
          op, packages, idx, pc, out>>

loopVars == <<packages, idx, pc, out>>

Init ==
    /\ workout_type = ""
    /\ data = <<>>
    /\ training = None
    /\ calories = None
    /\ infos = <<>>
    /\ messages = <<>>
    /\ raised = None
    /\ op = "init"
    /\ packages = <<>>
    /\ idx = 1
    /\ pc = "idle"
    /\ out = <<>>

(*************************************************************************)
(* Calls made by a client of the module.                                 *)
(*************************************************************************)
CallReadPackage ==
    /\ pc = "idle" /\ op = "init"
    /\ \E wt \in Codes, d \in DataLists :
         LET r == read_package(wt, d) IN
           /\ workout_type' = wt
           /\ data' = d
           /\ training' = IF IsRaise(r) THEN None ELSE r
           /\ raised' = IF IsRaise(r) THEN r ELSE None
    /\ op' = "read_package"
    /\ UNCHANGED <<calories, infos, messages, loopVars>>

\* Training(...) called directly: the base class is not abstract.
NewTraining ==
    /\ pc = "idle" /\ op = "init"
    /\ \E d \in DataLists :
         LET r == Construct("Training", d) IN
           /\ data' = d
           /\ training' = IF IsRaise(r) THEN None ELSE r
           /\ raised' = IF IsRaise(r) THEN r ELSE None
    /\ op' = "Training"
    /\ UNCHANGED <<workout_type, calories, infos, messages, loopVars>>

CallGetSpentCalories ==
    /\ pc = "idle" /\ training # None /\ raised = None
    /\ calories = None
    /\ LET r == get_spent_calories(training) IN
         /\ calories' = IF IsRaise(r) THEN None ELSE r
         /\ raised' = IF IsRaise(r) THEN r ELSE None
    /\ op' = "get_spent_calories"
    /\ UNCHANGED <<workout_type, data, training, infos, messages, loopVars>>

\* Variant: computing the summary consumes the action count.
CallShowTrainingInfo_consuming ==
    /\ pc = "idle" /\ training # None /\ raised = None
    /\ Len(infos) < MaxCalls
    /\ LET r == show_training_info(training) IN
         /\ infos' = IF IsRaise(r) THEN infos ELSE Append(infos, r)
         /\ raised' = IF IsRaise(r) THEN r ELSE None
    /\ training' = [training EXCEPT !.action = 0]
    /\ op' = "show_training_info"
    /\ UNCHANGED <<workout_type, data, calories, messages, loopVars>>

CallShowTrainingInfo ==
    /\ pc = "idle" /\ training # None /\ raised = None
    /\ Len(infos) < MaxCalls
    /\ LET r == show_training_info(training) IN
         /\ infos' = IF IsRaise(r) THEN infos ELSE Append(infos, r)
         /\ raised' = IF IsRaise(r) THEN r ELSE None
    /\ op' = "show_training_info"
    /\ UNCHANGED <<workout_type, data, training, calories, messages,
                   loopVars>>

CallGetMessage ==
    /\ pc = "idle" /\ infos # <<>> /\ raised = None
    /\ Len(messages) < MaxCalls
    /\ LET r == get_message(infos[Len(infos)]) IN
         /\ messages' = IF IsRaise(r) THEN messages ELSE Append(messages, r)
         /\ raised' = IF IsRaise(r) THEN r ELSE None
    /\ op' = "get_message"
    /\ UNCHANGED <<workout_type, data, training, calories, infos, loopVars>>

Next ==
    \/ CallReadPackage
    \/ NewTraining
    \/ CallGetSpentCalories
    \/ CallShowTrainingInfo
    \/ CallGetMessage

Spec == Init /\ [][Next]_vars

(*************************************************************************)
(* The script: for workout_type, data in packages: main(read_package()). *)
(* An exception nothing catches ends the script.                         *)
(*************************************************************************)
InitMain ==
    /\ workout_type = ""
    /\ data = <<>>
    /\ training = None
    /\ calories = None
    /\ infos = <<>>
    /\ messages = <<>>
    /\ raised = None
    /\ op = "init"
    /\ packages \in PackageLists
    /\ idx = 1
    /\ pc = "loop"
    /\ out = <<>>

LoopReadPackage ==
    /\ pc = "loop" /\ idx <= Len(packages)
    /\ LET r == read_package(packages[idx][1], packages[idx][2]) IN
         /\ workout_type' = packages[idx][1]
         /\ data' = packages[idx][2]
         /\ training' = IF IsRaise(r) THEN training ELSE r
         /\ raised' = IF IsRaise(r) THEN r ELSE None
         /\ pc' = IF IsRaise(r) THEN "crashed" ELSE "main"
    /\ op' = "read_package"
    /\ UNCHANGED <<calories, infos, messages, packages, idx, out>>

\* Variant: the new line is put in front of the earlier ones.
Main_prepend ==
    /\ pc = "main"
    /\ LET info == show_training_info(training)
           line == IF IsRaise(info) THEN info ELSE get_message(info)
       IN  /\ infos' = IF IsRaise(info) THEN infos ELSE <<info>>
           /\ messages' = IF IsRaise(line) THEN messages ELSE <<line>>
           /\ out' = IF IsRaise(line) THEN out ELSE <<line>> \o out
           /\ raised' = IF IsRaise(line) THEN line ELSE None
           /\ pc' = IF IsRaise(line) THEN "crashed" ELSE "loop"
           /\ idx' = IF IsRaise(line) THEN idx ELSE idx + 1
    /\ op' = "main"
    /\ UNCHANGED <<workout_type, data, training, calories, packages>>

\* main(training): the summary is computed, formatted and printed.
Main ==
    /\ pc = "main"
    /\ LET info == show_training_info(training)
           line == IF IsRaise(info) THEN info ELSE get_message(info)
       IN  /\ infos' = IF IsRaise(info) THEN infos ELSE <<info>>
           /\ messages' = IF IsRaise(line) THEN messages ELSE <<line>>
           /\ out' = IF IsRaise(line) THEN out ELSE Append(out, line)
           /\ raised' = IF IsRaise(line) THEN line ELSE None
           /\ pc' = IF IsRaise(line) THEN "crashed" ELSE "loop"
           /\ idx' = IF IsRaise(line) THEN idx ELSE idx + 1
    /\ op' = "main"
    /\ UNCHANGED <<workout_type, data, training, calories, packages>>

LoopExit ==
    /\ pc = "loop" /\ idx > Len(packages)
    /\ pc' = "done"
    /\ UNCHANGED <<workout_type, data, training, calories, infos, messages,
                   raised, op, packages, idx, out>>

NextMain ==
    \/ LoopReadPackage
    \/ Main
    \/ LoopExit

SpecMain == InitMain /\ [][NextMain]_vars

(*************************************************************************)
(* Properties.                                                           *)
(*************************************************************************)
RaisedKind == IF raised = None THEN "" ELSE raised.kind
TrainingCls == IF training = None THEN "" ELSE training.cls
Range(f) == {f[k] : k \in DOMAIN f}
ReadPackageCalled == workout_type # ""

\* C1: read_package dispatches on the code.  With an argument list of the
\* right length 'SWM' gives a Swimming, 'RUN' a Running and 'WLK' a
\* SportsWalking instance; any other code ends in the unsupported-type
\* error (NotImplementedError) and no instance exists.
C1_Dispatch ==
    ReadPackageCalled =>
      /\ (workout_type = "SWM" /\ Len(data) = 5) => TrainingCls = "Swimming"
      /\ (workout_type = "RUN" /\ Len(data) = 3) => TrainingCls = "Running"
      /\ (workout_type = "WLK" /\ Len(data) = 4) =>
            TrainingCls = "SportsWalking"
      /\ workout_type \notin {"SWM", "RUN", "WLK"} =>
            /\ training = None
            /\ RaisedKind = "NotImplementedError"
            /\ infos = <<>> /\ calories = None

C1_Witness ==
    /\ op = "read_package" /\ workout_type = "XYZ" /\ Len(data) = 3
    /\ RaisedKind = "NotImplementedError" /\ training = None

\* C2: the error read_package raises for an unsupported code carries the
\* offending code and all the supported codes.
C2_ErrorNamesCodes ==
    (ReadPackageCalled /\ RaisedKind = "NotImplementedError") =>
      /\ workout_type \in Range(raised.args)
      /\ {"SWM", "RUN", "WLK"} \subseteq Range(raised.args)

\* C3: a supported code with an argument list of any other length than the
\* variant's field count (Swimming 5, Running 3, walking 4) fails with the
\* invalid-arguments error (TypeError) and no instance is returned.
C3_WrongArity ==
    LET arity == CASE workout_type = "SWM" -> 5
                   [] workout_type = "RUN" -> 3
                   [] workout_type = "WLK" -> 4
                   [] OTHER -> 0 - 1
    IN  (ReadPackageCalled /\ arity >= 0 /\ Len(data) # arity) =>
          /\ training = None
          /\ RaisedKind = "TypeError"
          /\ infos = <<>> /\ calories = None

C3_Witness ==
    /\ op = "read_package" /\ workout_type = "RUN" /\ Len(data) = 4
    /\ RaisedKind = "TypeError" /\ training = None

\* C4 as claimed: a reading with duration 0 is rejected at construction, no
\* instance with duration 0 ever exists.
C4_ZeroDurationRejected ==
    training # None => training.duration # 0

\* C4 as amended: a reading with duration 0 and the right number of
\* arguments is accepted at construction; show_training_info on such an
\* instance raises ZeroDivisionError, so no InfoMessage and no message is
\* ever produced from a zero duration.
C4_ZeroDurationFailsAtSummary ==
    /\ (/\ op \in {"read_package", "Training"}
        /\ Len(data) = Len(InitParams(IF op = "Training" THEN "Training"
                                      ELSE IF workout_type \in DOMAIN sport
                                      THEN sport[workout_type] ELSE ""))
        /\ (op = "read_package" => workout_type \in DOMAIN sport)
        /\ data[2] = 0)
         => (training # None /\ training.duration = 0 /\ raised = None)
    /\ (training # None /\ training.duration = 0) =>
         /\ infos = <<>> /\ messages = <<>>
         /\ op = "show_training_info" => RaisedKind = "ZeroDivisionError"

C4_Witness ==
    /\ training # None /\ training.duration = 0
    /\ op = "show_training_info" /\ RaisedKind = "ZeroDivisionError"
    /\ infos = <<>>

\* C5: the calorie computation of the base Training, called directly or
\* through show_training_info, fails with the 'unimplemented' error: it
\* returns no value and yields no summary.
C5_BaseCaloriesUnimplemented ==
    TrainingCls = "Training" =>
      /\ calories = None
      /\ infos = <<>>
      /\ op = "get_spent_calories" => RaisedKind = "NotImplementedError"

\* What C6 says of every walking reading: a reading with duration > 0 and
\* height > 0 has a summary, and every summary of a walking instance has
\* distance = action*0.65/1000, mean_speed = distance/duration and
\* calories = (0.035*weight + (mean_speed*0.278)^2 / (height/100)
\*             * 0.029*weight) * duration * 60.
WalkingFormulasHold ==
    TrainingCls = "SportsWalking" =>
      /\ (/\ op = "show_training_info"
          /\ training.duration > 0 /\ training.height > 0)
           => (infos # <<>> /\ raised = None)
      /\ \A i \in 1..Len(infos) :
           LET a == training.action
               d == training.duration
               w == training.weight
               h == training.height
               ms == BMul(BN(a * 65), BN(278))
               den == BMul(BN(100000000), BN(d))
               kinetic == Q(BMul(BMul(ms, ms), BN(100 * 29 * w)),
                            BMul(BMul(den, den), BN(h * 1000)))
           IN  /\ QEq(infos[i].distance, Q(BN(a * 65), BN(100000)))
               /\ QEq(infos[i].speed, Q(BN(a * 65), BN(100000 * d)))
               /\ QEq(infos[i].calories,
                      QMul(QAdd(Q(BN(35 * w), BN(1000)), kinetic),
                           QI(60 * d)))

\* C6 as claimed: the walking formulas, and for
\* Walking(9000, 1, 75, 180) distance 5.85, mean speed 5.85 and calories
\* approximately 163.0 (within half a unit of the last digit given).
C6_WalkingAsClaimed ==
    /\ WalkingFormulasHold
    /\ (TrainingCls = "SportsWalking" /\ data = <<9000, 1, 75, 180>>) =>
         \A i \in 1..Len(infos) :
           /\ QEq(infos[i].distance, QDec(585, 100))
           /\ QEq(infos[i].speed, QDec(585, 100))
           /\ QLess(QDec(16295, 100), infos[i].calories)
           /\ QLess(infos[i].calories, QDec(16305, 100))

\* C6 as amended: the walking formulas, and for
\* Walking(9000, 1, 75, 180) distance 5.85, mean speed 5.85 and calories
\* 349.251747525, printed as 349.252.
C6_WalkingFormulas ==
    /\ WalkingFormulasHold
    /\ (TrainingCls = "SportsWalking" /\ data = <<9000, 1, 75, 180>>) =>
         \A i \in 1..Len(infos) :
           /\ QEq(infos[i].distance, QDec(585, 100))
           /\ QEq(infos[i].speed, QDec(585, 100))
           /\ QEq(infos[i].calories,
                  QAdd(QI(349), QDec(251747525, 1000000000)))
           /\ Format3f(infos[i].calories) = 349252

C6_Witness ==
    /\ TrainingCls = "SportsWalking" /\ data = <<9000, 1, 75, 180>>
    /\ op = "show_training_info" /\ Len(infos) >= 1

\* C7: for Swimming mean_speed = length_pool*count_pool/1000/duration and
\* calories = (mean_speed + 1.1)*2*weight*duration; neither depends on the
\* action count, while distance = action*1.38/1000 whatever the pool
\* length and lap count.  Swimming(720, 1, 80, 25, 40) has mean speed 1.0
\* and calories 336.0.
C7_Swimming ==
    TrainingCls = "Swimming" =>
      \A i \in 1..Len(infos) :
        LET a == training.action
            d == training.duration
            w == training.weight
            lp == training.length_pool
            cp == training.count_pool
            speed == Q(BN(lp * cp), BN(1000 * d))
        IN  /\ QEq(infos[i].speed, speed)
            /\ QEq(infos[i].calories,
                   QMul(QAdd(speed, QDec(11, 10)), QI(2 * w * d)))
            /\ QEq(infos[i].distance, Q(BN(a * 138), BN(100000)))
            /\ \A a2 \in ArgValues(1) :
                 LET other == show_training_info(
                                  [training EXCEPT !.action = a2])
                 IN  /\ QEq(other.speed, infos[i].speed)
                     /\ QEq(other.calories, infos[i].calories)
            /\ \A lp2 \in ArgValues(4), cp2 \in ArgValues(5) :
                 LET other == show_training_info(
                                  [training EXCEPT !.length_pool = lp2,
                                                   !.count_pool = cp2])
                 IN  QEq(other.distance, infos[i].distance)
            /\ data = <<720, 1, 80, 25, 40>> =>
                 /\ QEq(infos[i].speed, QI(1))
                 /\ QEq(infos[i].calories, QI(336))

C7_Witness ==
    /\ TrainingCls = "Swimming" /\ data = <<720, 1, 80, 25, 40>>
    /\ op = "show_training_info" /\ Len(infos) >= 1

\* What C8 says of every running reading: a reading with duration > 0 has
\* a summary, and every summary of a Running instance has
\* distance = action*0.65/1000, mean_speed = distance/duration and
\* calories = (18*mean_speed + 1.79) * weight / 1000 * duration * 60.
RunningFormulasHold ==
    TrainingCls = "Running" =>
      /\ (op = "show_training_info" /\ training.duration > 0)
           => (infos # <<>> /\ raised = None)
      /\ \A i \in 1..Len(infos) :
           LET a == training.action
               d == training.duration
               w == training.weight
           IN  /\ QEq(infos[i].distance, Q(BN(a * 65), BN(100000)))
               /\ QEq(infos[i].speed, Q(BN(a * 65), BN(100000 * d)))
               /\ QEq(infos[i].calories,
                      QMul(QAdd(Q(BN(18 * a * 65), BN(100000 * d)),
                                QDec(179, 100)),
                           Q(BN(w * d * 60), BN(1000))))

\* C8 as claimed: the running formulas, and for Running(15000, 1, 75)
\* distance 9.75, mean speed 9.75 and calories 798.0375 (within half a
\* unit of the last digit given).
C8_RunningAsClaimed ==
    /\ RunningFormulasHold
    /\ (TrainingCls = "Running" /\ data = <<15000, 1, 75>>) =>
         \A i \in 1..Len(infos) :
           /\ QEq(infos[i].distance, QDec(975, 100))
           /\ QEq(infos[i].speed, QDec(975, 100))
           /\ QLess(QDec(79803745, 100000), infos[i].calories)
           /\ QLess(infos[i].calories, QDec(79803755, 100000))

\* C8 as amended: the running formulas, and for Running(15000, 1, 75)
\* distance 9.75, mean speed 9.75 and calories 797.805.
C8_RunningFormulas ==
    /\ RunningFormulasHold
    /\ (TrainingCls = "Running" /\ data = <<15000, 1, 75>>) =>
         \A i \in 1..Len(infos) :
           /\ QEq(infos[i].distance, QDec(975, 100))
           /\ QEq(infos[i].speed, QDec(975, 100))
           /\ QEq(infos[i].calories, QDec(797805, 1000))

C8_Witness ==
    /\ TrainingCls = "Running" /\ data = <<15000, 1, 75>>
    /\ op = "show_training_info" /\ Len(infos) >= 1

\* C9: a summary is idempotent and free of side effects: all the
\* InfoMessages show_training_info returned for an instance are equal, all
\* the messages get_message returned are equal, and every field of the
\* instance still holds the argument it was constructed from.
C9_Idempotent ==
    /\ \A i, j \in 1..Len(infos) : infos[i] = infos[j]
    /\ \A i, j \in 1..Len(messages) : messages[i] = messages[j]
    /\ training # None =>
         /\ training.action = data[1]
         /\ training.duration = data[2]
         /\ training.weight = data[3]
         /\ training.cls = "SportsWalking" => training.height = data[4]
         /\ training.cls = "Swimming" =>
              (training.length_pool = data[4] /\ training.count_pool = data[5])

C9_Witness ==
    /\ training # None /\ Len(infos) >= 2 /\ Len(messages) >= 2
    /\ raised = None

\* The line the script prints for one package.
LineOf(package) ==
    LET t == read_package(package[1], package[2])
        i == IF IsRaise(t) THEN t ELSE show_training_info(t)
    IN  IF IsRaise(i) THEN i ELSE get_message(i)

\* C10: the script prints one line per workout, in input order: when k
\* packages have been processed k lines are printed and the k-th is the
\* summary of the k-th package.  A package with an unsupported code at
\* position k raises after exactly the k-1 preceding lines, prints nothing
\* and is never retried: the script takes no further step.
C10_OneLinePerWorkout ==
    /\ [](/\ Len(out) = idx - 1
          /\ \A k \in 1..Len(out) : out[k] = LineOf(packages[k])
          /\ pc = "done" => Len(out) = Len(packages)
          /\ RaisedKind = "NotImplementedError" =>
               /\ pc = "crashed"
               /\ packages[idx][1] \notin {"SWM", "RUN", "WLK"})
    /\ [][pc = "crashed" => UNCHANGED vars]_vars
    /\ [][pc = "main" => \/ (out' = Append(out, LineOf(packages[idx]))
                             /\ idx' = idx + 1)
                         \/ (pc' = "crashed" /\ out' = out)]_vars

C10_Witness ==
    /\ pc = "crashed" /\ RaisedKind = "NotImplementedError"
    /\ idx = 3 /\ Len(out) = 2 /\ out[1] # out[2]

===========================================================================
